---- MODULE Spec2Model ----
(***************************************************************************)
(* Heart Disease Dashboard (app.py): a Streamlit script that loads a table *)
(* of patient records once, filters it by five sidebar widgets and derives *)
(* six summary tables, one per chart.  Streamlit re-executes the whole     *)
(* script on every widget change, so every action below is one complete    *)
(* execution of the script.                                                *)
(*                                                                         *)
(* A DataFrame is a function from its index labels to row records.         *)
(* Numbers that pandas holds as floats are exact fractions here:           *)
(* [num, den] stands for num/den and den = 0 stands for NaN.  An absolute  *)
(* Pearson correlation |r| is held as the fraction r^2.  oldpeak is held   *)
(* in tenths, which leaves every correlation unchanged.                    *)
(***************************************************************************)
EXTENDS Integers, FiniteSets, Sequences, TLC

\* The largest number of records of heart_cleaned_fe.csv that is explored.
MaxRows == 2

(***************************************************************************)
(* Records heart_cleaned_fe.csv may hold.  A file is any selection of one  *)
(* to MaxRows of them; a record keeps its position here as index label.    *)
(***************************************************************************)
Rec(a, m, c, e, x, s, bp, ch, hr, op, fb, hd) ==
    [age |-> a, SexMale |-> m, chest_pain_type |-> c, resting_ecg |-> e,
     AnginaYes |-> x, st_slope |-> s, resting_bp |-> bp, cholesterol |-> ch,
     max_hr |-> hr, oldpeak |-> op, fasting_bs |-> fb, heart_disease |-> hd]

heart_csv ==
    << Rec(29, 1, "ATA", "LVH",    0, "Up",   130, 204, 202,  0, 0, 0),
       Rec(40, 1, "ATA", "Normal", 0, "Up",   140, 289, 172,  0, 0, 0),
       Rec(41, 0, "ASY", "Normal", 1, "Flat", 130, 237, 138, 10, 1, 1),
       Rec(71, 0, "ATA", "Normal", 0, "Flat", 112, 149, 125, 16, 0, 0),
       Rec(77, 1, "ASY", "LVH",    1, "Flat", 125, 304, 162,  0, 1, 1) >>

Files ==
    {f \in SUBSET (1 .. Len(heart_csv)) :
        1 <= Cardinality(f) /\ Cardinality(f) <= MaxRows}

read_csv(f) == [i \in f |-> heart_csv[i]]

(***************************************************************************)
(* Generic helpers over finite sets of integers and fractions.             *)
(***************************************************************************)
RECURSIVE SumFn(_, _)
SumFn(f, S) ==
    IF S = {} THEN 0
    ELSE LET x == CHOOSE y \in S : TRUE IN f[x] + SumFn(f, S \ {x})

SetMax(S) == CHOOSE x \in S : \A y \in S : y <= x

NaN == [num |-> 0, den |-> 0]
Frac(n, d) == IF d = 0 THEN NaN ELSE [num |-> n, den |-> d]
IsNaN(q) == q.den = 0

(***************************************************************************)
(* 1) LOAD & PREPROCESS                                                    *)
(***************************************************************************)
labels == << "30-40", "41-50", "51-60", "61-70", "71+" >>
Categories == {labels[k] : k \in 1 .. Len(labels)}
NoGroup == "NaN"

\* bins = [29, 40, 50, 60, 70, df.age.max()]
bins(t) == << 29, 40, 50, 60, 70, SetMax({t[i].age : i \in DOMAIN t}) >>

\* pd.cut raises ValueError unless the bin edges increase strictly, which
\* they do only when some record is older than 70.
BinsValid(t) == \A k \in 1 .. Len(labels) : bins(t)[k] < bins(t)[k + 1]

\* pd.cut(age, bins, labels): intervals are open on the left and closed on
\* the right (right=True, include_lowest=False); an age in no interval
\* gets NaN.
cut(a, b) ==
    IF \E k \in 1 .. Len(labels) : b[k] < a /\ a <= b[k + 1]
    THEN labels[CHOOSE k \in 1 .. Len(labels) : b[k] < a /\ a <= b[k + 1]]
    ELSE NoGroup

AddAgeGroup(r, g) ==
    [age |-> r.age, SexMale |-> r.SexMale, chest_pain_type |-> r.chest_pain_type,
     resting_ecg |-> r.resting_ecg, AnginaYes |-> r.AnginaYes,
     st_slope |-> r.st_slope, resting_bp |-> r.resting_bp,
     cholesterol |-> r.cholesterol, max_hr |-> r.max_hr, oldpeak |-> r.oldpeak,
     fasting_bs |-> r.fasting_bs, heart_disease |-> r.heart_disease,
     AgeGroup |-> g]

\* load_data() on the file f: the augmented table.  Defined when BinsValid.
load_data(f) ==
    LET t == read_csv(f)
    IN  [i \in DOMAIN t |-> AddAgeGroup(t[i], cut(t[i].age, bins(t)))]

(***************************************************************************)
(* 2) SIDEBAR FILTERS                                                      *)
(***************************************************************************)
EmptyTable == [i \in {} |-> 0]
Restrict(t, S) == [i \in S |-> t[i]]
unique(t, col) == {t[i][col] : i \in DOMAIN t}

\* The options each widget offers and the value it holds on the first run.
cp_options(t) == unique(t, "chest_pain_type")
ecg_options(t) == {"All"} \cup unique(t, "resting_ecg")
ag_options == Categories
sex_options == {"All", "Male", "Female"}

Defaults(t) ==
    [cp |-> cp_options(t), ecg |-> "All", ag |-> ag_options,
     ang |-> FALSE, sex |-> "All"]

\* A multiselect that treats an empty selection as "no constraint".
isin_or_unset(v, values) == values = {} \/ (v # "NaN" /\ v \in values)

\* Series.isin(values): NaN is in no selection.
isin(v, values) == v # NoGroup /\ v \in values

\* d = df[df.chest_pain_type.isin(cp)]
by_cp(t, c) == Restrict(t, {i \in DOMAIN t : isin(t[i].chest_pain_type, c.cp)})

\* if ecg!='All': d = d[d.resting_ecg==ecg]
by_ecg(t, c) ==
    IF c.ecg # "All"
    THEN Restrict(t, {i \in DOMAIN t : t[i].resting_ecg = c.ecg})
    ELSE t

\* d = d[d['Age Group'].isin(ag)]
by_ag(t, c) == Restrict(t, {i \in DOMAIN t : isin(t[i].AgeGroup, c.ag)})

\* if ang: d = d[d['Exercise-Induced Angina: Yes']==1]
by_ang(t, c) ==
    IF c.ang THEN Restrict(t, {i \in DOMAIN t : t[i].AnginaYes = 1}) ELSE t

\* The sex filter with the two codes swapped.
by_sex_swapped(t, c) ==
    LET val == IF c.sex = "Male" THEN 0 ELSE 1
    IN  IF c.sex # "All"
        THEN Restrict(t, {i \in DOMAIN t : t[i].SexMale = val})
        ELSE t

\* if sex!='All': val = 1 if sex=='Male' else 0; d = d[d['Sex: Male']==val]
by_sex(t, c) ==
    LET val == IF c.sex = "Male" THEN 1 ELSE 0
    IN  IF c.sex # "All"
        THEN Restrict(t, {i \in DOMAIN t : t[i].SexMale = val})
        ELSE t

\* The filter block followed by a slice that skips the first row left.
FilterRows_skip_first(t, c) ==
    LET dd == by_sex(by_ang(by_ag(by_ecg(by_cp(t, c), c), c), c), c)
    IN  Restrict(dd, {i \in DOMAIN dd : \E j \in DOMAIN dd : j < i})

\* The filter block: its five statements in order, each on the result of
\* the one before.
FilterRows(t, c) == by_sex(by_ang(by_ag(by_ecg(by_cp(t, c), c), c), c), c)

(***************************************************************************)
(* 4) CHARTS: the six summary tables                                       *)
(***************************************************************************)
\* The rows of t whose columns c1 and c2 hold k[1] and k[2].
RowsAt(t, c1, c2, k) == {i \in DOMAIN t : t[i][c1] = k[1] /\ t[i][c2] = k[2]}
RowsWith(t, col, v) == {i \in DOMAIN t : t[i][col] = v}

\* Series.mean() of heart_disease over the rows S of t (NaN when S is empty).
mean_hd(t, S) == Frac(SumFn([i \in S |-> t[i].heart_disease], S), Cardinality(S))
Times100(q) == IF IsNaN(q) THEN NaN ELSE [num |-> 100 * q.num, den |-> q.den]

\* The group keys of t.groupby(['Age Group', col]).  'Age Group' is a
\* categorical column: rows whose group is NaN are dropped, and with
\* observed=False (the default before pandas 3) every category is paired
\* with every value of col that occurs, with observed=True only the pairs
\* that occur are groups.
GroupKeys(t, col, obs) ==
    LET live == {i \in DOMAIN t : t[i].AgeGroup # NoGroup}
    IN  IF obs
        THEN {<<t[i].AgeGroup, t[i][col]>> : i \in live}
        ELSE Categories \X {t[i][col] : i \in live}

\* mos with every count divided by the count of the whole table.
Mos_table_total(t, obs) ==
    LET keys == GroupKeys(t, "chest_pain_type", obs)
        count == [k \in keys |->
                    Cardinality(RowsAt(t, "AgeGroup", "chest_pain_type", k))]
    IN  [k \in keys |->
            [count |-> count[k], pct |-> Frac(count[k], SumFn(count, keys))]]

\* mos: count per (Age Group, chest_pain_type) and its share of the
\* age group's total count.
Mos(t, obs) ==
    LET keys == GroupKeys(t, "chest_pain_type", obs)
        count == [k \in keys |->
                    Cardinality(RowsAt(t, "AgeGroup", "chest_pain_type", k))]
        total(g) == SumFn(count, {k \in keys : k[1] = g})
    IN  [k \in keys |->
            [count |-> count[k], pct |-> Frac(count[k], total(k[1]))]]

\* ct, rt and their inner merge df_e: count and disease % per resting_ecg.
Ct(t) ==
    [e \in unique(t, "resting_ecg") |-> Cardinality(RowsWith(t, "resting_ecg", e))]
Rt(t) ==
    [e \in unique(t, "resting_ecg") |->
        Times100(mean_hd(t, RowsWith(t, "resting_ecg", e)))]
DfE(t) ==
    LET ct == Ct(t)
        rt == Rt(t)
    IN  [e \in DOMAIN ct \cap DOMAIN rt |-> [count |-> ct[e], rate |-> rt[e]]]

\* heat with the cells that have no value filled with 0.
Heat_fillna(t, obs) ==
    LET keys == GroupKeys(t, "st_slope", obs)
        index == {k[1] : k \in keys}
        columns == {k[2] : k \in keys}
    IN  [index |-> index, columns |-> columns,
         cell |-> [k \in index \X columns |->
                     LET S == RowsAt(t, "AgeGroup", "st_slope", k)
                     IN  IF S # {} THEN Times100(mean_hd(t, S)) ELSE Frac(0, 1)]]

\* heat: mean outcome per (Age Group, st_slope), pivoted to a matrix whose
\* cells without a value are NaN, times 100.
Heat(t, obs) ==
    LET keys == GroupKeys(t, "st_slope", obs)
        long == [k \in keys |-> mean_hd(t, RowsAt(t, "AgeGroup", "st_slope", k))]
        index == {k[1] : k \in keys}
        columns == {k[2] : k \in keys}
    IN  [index |-> index, columns |-> columns,
         cell |-> [k \in index \X columns |->
                     IF k \in keys THEN Times100(long[k]) ELSE NaN]]

\* df4: count and disease % per (Sex: Male, chest_pain_type), sex decoded.
SexLabel(m) == IF m = 0 THEN "Female" ELSE "Male"
Df4(t) ==
    LET keys == {<<t[i].SexMale, t[i].chest_pain_type>> : i \in DOMAIN t}
    IN  [k \in keys |->
            LET S == RowsAt(t, "SexMale", "chest_pain_type", k)
            IN  [count |-> Cardinality(S), rate |-> Times100(mean_hd(t, S)),
                 Sex |-> SexLabel(k[1])]]

\* |Pearson r| of column col with heart_disease over the table t, as r^2.
cols == {"age", "resting_bp", "cholesterol", "max_hr", "oldpeak", "fasting_bs"}
AbsCorr(t, col) ==
    LET S == DOMAIN t
        n == Cardinality(S)
        sx == SumFn([i \in S |-> t[i][col]], S)
        sy == SumFn([i \in S |-> t[i].heart_disease], S)
        sxy == SumFn([i \in S |-> t[i][col] * t[i].heart_disease], S)
        sxx == SumFn([i \in S |-> t[i][col] * t[i][col]], S)
        syy == SumFn([i \in S |-> t[i].heart_disease * t[i].heart_disease], S)
        cov == n * sxy - sx * sy
        vx == n * sxx - sx * sx
        vy == n * syy - sy * sy
    IN  Frac(cov * cov, vx * vy)
CorrVector(t) == [col \in cols |-> AbsCorr(t, col)]

\* The number of values of a column, repeated values counted again.
count_values(t, col) == Cardinality(DOMAIN t)

nunique(t, col) == Cardinality(unique(t, col))

\* fig5: two traces (male rows, female rows) when both sexes occur in d,
\* one trace over all of d otherwise.
Fig5(t) ==
    IF nunique(t, "SexMale") > 1
    THEN << [name |-> "Male",
             r |-> CorrVector(Restrict(t, RowsWith(t, "SexMale", 1)))],
            [name |-> "Female",
             r |-> CorrVector(Restrict(t, RowsWith(t, "SexMale", 0)))] >>
    ELSE << [name |-> "", r |-> CorrVector(t)] >>

\* ln scaled to a percentage as rt, heat and df4 are.
Ln_percent(t, obs) ==
    LET keys == GroupKeys(t, "chest_pain_type", obs)
    IN  [k \in keys |->
            Times100(mean_hd(t, RowsAt(t, "AgeGroup", "chest_pain_type", k)))]

\* ln: mean outcome (a fraction) per (Age Group, chest_pain_type).
Ln(t, obs) ==
    LET keys == GroupKeys(t, "chest_pain_type", obs)
    IN  [k \in keys |-> mean_hd(t, RowsAt(t, "AgeGroup", "chest_pain_type", k))]

(***************************************************************************)
(* The script as a state machine                                           *)
(***************************************************************************)
VARIABLES
    file,      \* the index labels of heart_cleaned_fe.csv
    observed,  \* the default of groupby(observed=...) of the installed pandas
    phase,     \* "start", "ok" (a run completed) or "load_error"
    cache,     \* the value st.cache_data keeps for load_data()
    df,        \* the table the last run got from load_data()
    crit,      \* the widget values cp, ecg, ag, ang, sex of the last run
    d,         \* the filtered table of the last run
    mos, df_e, heat, df4, fig5, ln   \* the six summary tables of the last run

vars == <<file, observed, phase, cache, df, crit, d, mos, df_e, heat, df4, fig5, ln>>

NoCrit == [cp |-> {}, ecg |-> "All", ag |-> {}, ang |-> FALSE, sex |-> "All"]

Init ==
    /\ file \in Files
    /\ observed \in BOOLEAN
    /\ phase = "start"
    /\ cache = EmptyTable
    /\ df = EmptyTable
    /\ crit = NoCrit
    /\ d = EmptyTable
    /\ mos = EmptyTable
    /\ df_e = EmptyTable
    /\ heat = Heat(EmptyTable, TRUE)
    /\ df4 = EmptyTable
    /\ fig5 = << >>
    /\ ln = EmptyTable

\* One execution of the script from the filter block to the last chart,
\* on the table t that load_data() returned and the widget values c.
Run(t, c) ==
    LET dd == FilterRows(t, c)
    IN  /\ df' = t
        /\ crit' = c
        /\ d' = dd
        /\ mos' = Mos(dd, observed)
        /\ df_e' = DfE(dd)
        /\ heat' = Heat(dd, observed)
        /\ df4' = Df4(dd)
        /\ fig5' = Fig5(dd)
        /\ ln' = Ln(dd, observed)

\* First execution: load_data() runs and raises in pd.cut.
FirstRunFails ==
    /\ phase = "start"
    /\ ~BinsValid(read_csv(file))
    /\ phase' = "load_error"
    /\ UNCHANGED <<file, observed, cache, df, crit, d, mos, df_e, heat, df4, fig5, ln>>

\* First execution: load_data() runs, its value is cached, every widget
\* holds its default.
FirstRun ==
    /\ phase = "start"
    /\ BinsValid(read_csv(file))
    /\ phase' = "ok"
    /\ cache' = load_data(file)
    /\ Run(load_data(file), Defaults(load_data(file)))
    /\ UNCHANGED <<file, observed>>

\* A re-execution that filters the table the last run was left with and
\* keeps the result as the table.
Rerun_incremental(c) ==
    /\ phase = "ok"
    /\ c # crit
    /\ Run(d, c)
    /\ cache' = d
    /\ UNCHANGED <<file, observed, phase>>

\* A widget change re-executes the script: load_data() returns the cached
\* table, the other widgets keep their values.
Rerun(c) ==
    /\ phase = "ok"
    /\ c # crit
    /\ Run(cache, c)
    /\ UNCHANGED <<file, observed, phase, cache>>

Toggle(S, x) == IF x \in S THEN S \ {x} ELSE S \cup {x}

ChangeCp ==
    \E x \in cp_options(cache) : Rerun([crit EXCEPT !.cp = Toggle(@, x)])

ChangeEcg ==
    \E e \in ecg_options(cache) : Rerun([crit EXCEPT !.ecg = e])

ChangeAg ==
    \E g \in ag_options : Rerun([crit EXCEPT !.ag = Toggle(@, g)])

ChangeAng == Rerun([crit EXCEPT !.ang = ~@])

ChangeSex ==
    \E s \in sex_options : Rerun([crit EXCEPT !.sex = s])

Next ==
    \/ FirstRunFails
    \/ FirstRun
    \/ ChangeCp
    \/ ChangeEcg
    \/ ChangeAg
    \/ ChangeAng
    \/ ChangeSex

Spec == Init /\ [][Next]_vars

(***************************************************************************)
(* Properties                                                              *)
(***************************************************************************)
Loaded == phase = "ok"

InRange(q, hi) == q.den > 0 /\ 0 <= q.num /\ q.num <= hi * q.den

AddFrac(a, b) == [num |-> a.num * b.den + b.num * a.den, den |-> a.den * b.den]

RECURSIVE SumFrac(_, _)
SumFrac(f, S) ==
    IF S = {} THEN [num |-> 0, den |-> 1]
    ELSE LET x == CHOOSE y \in S : TRUE IN AddFrac(f[x], SumFrac(f, S \ {x}))

\* The five predicates of a FilterCriteria c on a row r.
Satisfies(r, c) ==
    /\ r.chest_pain_type \in c.cp
    /\ (c.ecg # "All" => r.resting_ecg = c.ecg)
    /\ r.AgeGroup \in c.ag
    /\ (c.ang => r.AnginaYes = 1)
    /\ (c.sex = "Male" => r.SexMale = 1)
    /\ (c.sex = "Female" => r.SexMale = 0)

\* C1: after every run the filtered table d is exactly the rows of the
\* augmented table df that satisfy all five predicates of the current
\* criteria: no row of d violates one, none that satisfies all is missing.
C1_FilterExact ==
    Loaded =>
        /\ DOMAIN d = {i \in DOMAIN df : Satisfies(df[i], crit)}
        /\ \A i \in DOMAIN d : d[i] = df[i]

\* C1 witness: all five predicates constrain, d keeps a row and drops one.
C1_Witness ==
    /\ Loaded
    /\ crit.cp # cp_options(df) /\ crit.cp # {}
    /\ crit.ecg # "All"
    /\ crit.ag # ag_options
    /\ crit.ang
    /\ crit.sex # "All"
    /\ DOMAIN d # {}
    /\ DOMAIN d # DOMAIN df

\* The bin the specification gives an age-group label: [30,40], [41,50],
\* [51,60], [61,70], [71,max].
InClaimedBin(a, g, max) ==
    \/ g = "30-40" /\ 30 <= a /\ a <= 40
    \/ g = "41-50" /\ 41 <= a /\ a <= 50
    \/ g = "51-60" /\ 51 <= a /\ a <= 60
    \/ g = "61-70" /\ 61 <= a /\ a <= 70
    \/ g = "71+" /\ 71 <= a /\ a <= max

\* C2: load_data gives every record of the source table exactly one of the
\* five age-group labels, the one whose bin holds the record's age; no
\* record is left without an age group.
C2_EveryRecordGrouped ==
    Loaded =>
        /\ DOMAIN df = file
        /\ \A i \in file :
              /\ df[i].AgeGroup \in Categories
              /\ InClaimedBin(df[i].age, df[i].AgeGroup,
                              SetMax({heart_csv[j].age : j \in file}))

\* C3: with the chest-pain or the age-group multiselect empty the filtered
\* table has no rows and every one of the six summary tables is computed
\* and is empty, fig5 being one vector without a single value.
C3_EmptySelection ==
    (Loaded /\ (crit.cp = {} \/ crit.ag = {})) =>
        /\ DOMAIN d = {}
        /\ DOMAIN mos = {}
        /\ DOMAIN df_e = {}
        /\ DOMAIN heat.cell = {}
        /\ DOMAIN df4 = {}
        /\ Len(fig5) = 1
        /\ \A col \in cols : IsNaN(fig5[1].r[col])
        /\ DOMAIN ln = {}

\* C3 witness: a run over a table with rows in an age group, with the
\* chest-pain multiselect emptied and nothing else constrained.
C3_Witness ==
    /\ Loaded
    /\ crit.cp = {}
    /\ crit.ag = ag_options /\ crit.ecg = "All" /\ ~crit.ang /\ crit.sex = "All"
    /\ \E i \in DOMAIN df : df[i].AgeGroup \in Categories

\* C4: in mos, for every age group with a row in d, each pct is the count
\* of its (age group, chest-pain type) over the row count of the age group,
\* the counts add up to that row count and the pcts add up to 1.
C4_PctSumsToOne ==
    Loaded =>
        \A g \in Categories :
            LET rows == {i \in DOMAIN d : d[i].AgeGroup = g}
                ks == {k \in DOMAIN mos : k[1] = g}
            IN  rows # {} =>
                  /\ ks # {}
                  /\ \A k \in ks :
                        /\ mos[k].count =
                             Cardinality({i \in rows : d[i].chest_pain_type = k[2]})
                        /\ mos[k].pct.den # 0
                        /\ mos[k].pct.num * Cardinality(rows)
                             = mos[k].count * mos[k].pct.den
                  /\ SumFn([k \in ks |-> mos[k].count], ks) = Cardinality(rows)
                  /\ LET total == SumFrac([k \in ks |-> mos[k].pct], ks)
                     IN  total.den # 0 /\ total.num = total.den

\* C4 witness: an age group split over two chest-pain types.
C4_Witness ==
    /\ Loaded
    /\ \E k \in DOMAIN mos : 0 < mos[k].pct.num /\ mos[k].pct.num < mos[k].pct.den

C7_Idempotent == Loaded => FilterRows(d, crit) = d

\* C7 witness: the filter, with an ECG value selected, removed a row that
\* has an age group and kept another.
C7_Witness ==
    /\ Loaded
    /\ crit.ecg # "All"
    /\ DOMAIN d # {}
    /\ \E i \in DOMAIN df \ DOMAIN d : df[i].AgeGroup \in Categories

\* C8: after any sequence of widget changes the cached table, and the
\* table the run got from load_data(), is the table load_data() built from
\* the file, and the filtered table and the six summary tables are those of
\* that table under the current criteria alone.
C8_WriteOnce ==
    Loaded =>
        /\ cache = load_data(file)
        /\ df = load_data(file)
        /\ d = FilterRows(load_data(file), crit)
        /\ mos = Mos(d, observed)
        /\ df_e = DfE(d)
        /\ heat = Heat(d, observed)
        /\ df4 = Df4(d)
        /\ fig5 = Fig5(d)
        /\ ln = Ln(d, observed)

\* C8 witness: after several widget changes the filter drops rows and
\* the table is still the loaded one.
C8_Witness ==
    /\ Loaded
    /\ df = load_data(file) /\ cache = df
    /\ crit.sex = "Female" /\ crit.ang
    /\ DOMAIN d # {}
    /\ DOMAIN d # DOMAIN df

\* C9: a cell (age group, slope) of heat holds a value exactly when d has a
\* row with that age group and slope, the value being the mean outcome of
\* those rows times 100; a combination without rows is never a 0.
C9_HeatCells ==
    Loaded =>
        \A g \in Categories, s \in unique(df, "st_slope") :
            LET S == RowsAt(d, "AgeGroup", "st_slope", <<g, s>>)
                has == /\ <<g, s>> \in DOMAIN heat.cell
                       /\ ~IsNaN(heat.cell[<<g, s>>])
            IN  /\ has <=> S # {}
                /\ has => heat.cell[<<g, s>>] = Times100(mean_hd(d, S))

\* C9 witness: a matrix with an absent cell beside a cell whose rate is 0.
C9_Witness ==
    /\ Loaded
    /\ \E k \in DOMAIN heat.cell : IsNaN(heat.cell[k])
    /\ \E k \in DOMAIN heat.cell : heat.cell[k].den > 0 /\ heat.cell[k].num = 0

\* C10: with every widget at its default the filtered table holds every
\* record of the source table, whatever its age.
C10_DefaultsKeepAll ==
    (Loaded /\ crit = Defaults(df)) => DOMAIN d = file

====
